---- MODULE Spec2Model ----
(***************************************************************************)
(* A model of package fitz (src/fitz.go): one Document handle wrapping a   *)
(* native MuPDF context and document, opened once by New, NewFromMemory or *)
(* NewFromReader and then used by several goroutines through Text,         *)
(* ImageBytes, Image, ToC, Metadata and Close.                             *)
(*                                                                         *)
(* The native library is a black box.  The model keeps what the Go code    *)
(* decides: which native calls are made, in which order, with which        *)
(* handles, under which lock, and what is returned.  A native call that is *)
(* handed a NULL or an already released handle has no defined result.      *)
(* Where the Go code branches on such a result every branch is taken;      *)
(* where it stores a count every count is stored; where it only copies     *)
(* bytes into the value it returns, the bytes are the value Undefined.     *)
(***************************************************************************)
EXTENDS Integers, Sequences, FiniteSets, TLC

\* ------------------------------------------------------------------ bounds
NumThreads == 2
MaxPages == 1
MaxObjs == 2

Threads == 1..NumThreads
NoThread == 0

\* Page and object numbers a caller may pass: the valid ones, the first
\* below them and the first above them.
PageArgs == -1..MaxPages
ObjArgs == 0..MaxObjs
\* What a count query may give back when it is handed a missing document.
GarbageCounts == -1..MaxPages
GarbageObjCounts == -1..MaxObjs

\* ------------------------------------------------------------------ errors
ErrNil == "nil"
ErrAbs == "filepath.Abs error"
ErrNoSuchFile == "fitz: no such file"
ErrCreateContext == "fitz: cannot create context"
ErrOpenDocument == "fitz: cannot open document"
ErrOpenMemory == "fitz: cannot open memory"
ErrPageMissing == "fitz: page missing"
ErrObjMissing == "fitz: obj missing"
ErrNotImage == "fitz: obj is not image, please ignore this obj"
ErrNeedsPassword == "fitz: document needs password"
ErrLoadOutline == "fitz: cannot load outline"
ErrRead == "ioutil.ReadAll error"

VARIABLES
    phase,      \* "start" before a constructor ran, "opened" after it returned a
                \* Document, "nil" after it returned a nil *Document
    opener,     \* "New" or "NewFromMemory": the constructor that made the Document;
                \* "NewFromReader" when it returned before it had one made
    openErr,    \* the error the constructor returned
    f,          \* the Go struct Document: ctx, pdf, pageTotal, objTotal
    mtx,        \* f.mtx: the goroutine holding it, or NoThread
    native,     \* the native heap: state of each object the constructors create
    world,      \* the document behind f.pdf as the native library sees it
    openNull,   \* native calls the constructor made with a NULL document
    scan,       \* a caller's scan of the object numbers: the <<number, error>> got so far
    input,      \* the byte slice handed to contentType
    mtype,      \* what contentType returned
    pc,         \* per goroutine: where it is in the method it runs
    arg,        \* per goroutine: the argument of the method it runs
    loc,        \* per goroutine: the locals of the method it runs
    ret         \* per goroutine: what its last method call returned

vars ==
    <<phase, opener, openErr, f, mtx, native, world, openNull, scan, input, mtype,
      pc, arg, loc, ret>>

\* ------------------------------------------------------------- Document
\* f = &Document{}: nil pointers, zero counts, unlocked mutex.
EmptyDocument == [ctx |-> "nil", pdf |-> "nil", pageTotal |-> 0, objTotal |-> 0]

\* The native heap before any constructor ran.  An object is "none" (its
\* creation was never attempted), "failed" (the native library could not
\* create it and gave NULL), "live", "dropped" (released once) or "double"
\* (released again).  streamRefs counts the references to the memory stream.
EmptyNative ==
    [ctx |-> "none", pdf |-> "none", cfilename |-> "none", data |-> "none",
     stream |-> "none", streamRefs |-> 0]

\* An outline is a forest: a sequence of nodes, each with the fields of
\* fz_outline the code reads and the forest below it (down); the sequence
\* order is the next chain.  present: the document has an outline at all.
Leaf(title, page) == [title |-> title, uri |-> "", page |-> page, y |-> 0, down |-> <<>>]
NoOutline == [present |-> FALSE, roots |-> <<>>]
EmptyOutline == [present |-> TRUE, roots |-> <<>>]
SmallOutline ==
    [present |-> TRUE,
     roots |-> << [Leaf("a", 0) EXCEPT !.down = <<Leaf("b", 0)>>], Leaf("c", 1) >>]
\* The documents the native library may find behind a file or a byte slice.
\* images is the set of object numbers whose Subtype is Image; outline is
\* the outline the document exposes; info is the set of metadata keys,
\* written as pdf_lookup_metadata takes them, the Info dictionary has.
Worlds ==
    {w \in [pages : 0..MaxPages, objs : 1..MaxObjs, images : SUBSET (1..(MaxObjs - 1)),
             encrypted : BOOLEAN, outline : {NoOutline, EmptyOutline, SmallOutline},
             info : {{}}] :
        w.images \subseteq 1..(w.objs - 1)}
NoWorld ==
    [pages |-> 0, objs |-> 1, images |-> {}, encrypted |-> FALSE, outline |-> NoOutline,
     info |-> {}]

\* The locals of a method call.  op: the method the caller invoked; called:
\* the call has made a native call; met: what its native calls met in f.ctx
\* and f.pdf when the handle was NULL or released.  page .. outline: the
\* native objects the call obtains, each "none", "live", "closed" (a device)
\* or "dropped".  str: the Go string copied out of a native buffer; nodes:
\* the outline pdf_load_outline gave; list: the []Outline being built; map:
\* the map[string]string being built, as its set of <<key, value>> pairs.
PerCall == {"page", "text", "device", "buf", "obj", "ref", "img", "outline"}
NoLoc ==
    [op |-> "none", called |-> FALSE, met |-> {},
     page |-> "none", text |-> "none", device |-> "none", buf |-> "none",
     obj |-> "none", ref |-> "none", img |-> "none", outline |-> "none",
     str |-> "", nodes |-> <<>>, list |-> <<>>, map |-> {}]
\* What a method returns: val for a string, []byte or image.Image result
\* ("nil" for a nil one), list for a []Outline, map for a map[string]string.
NoRet == [op |-> "none", val |-> "none", list |-> <<>>, map |-> {}, err |-> ErrNil]
StrResult(val, err) == [val |-> val, list |-> <<>>, map |-> {}, err |-> err]
ListResult(list, err) == [val |-> "none", list |-> list, map |-> {}, err |-> err]
MapResult(map) == [val |-> "none", list |-> <<>>, map |-> map, err |-> ErrNil]

Init ==
    /\ phase = "start"
    /\ opener = "none"
    /\ openErr = ErrNil
    /\ f = EmptyDocument
    /\ mtx = NoThread
    /\ native = EmptyNative
    /\ world = NoWorld
    /\ openNull = {}
    /\ scan = {}
    /\ input = <<>>
    /\ mtype = ""
    /\ pc = [t \in Threads |-> "idle"]
    /\ arg = [t \in Threads |-> 0]
    /\ loc = [t \in Threads |-> NoLoc]
    /\ ret = [t \in Threads |-> NoRet]

\* ------------------------------------------------------------ constructors
\* The tail New and NewFromMemory share (lines 89-102 and 126-140): the
\* open-document result is tested, then the password check and the two count
\* queries run on f.pdf whatever it is.  docOk: the native open yields a
\* document (w).  ubPw, ubPages, ubObjs: what the three queries give back
\* when they are handed the NULL document.
OpenTail(docOk, w, ubPw, ubPages, ubObjs) ==
    LET pdf == IF docOk THEN "ptr" ELSE "nil"
        err0 == IF pdf = "nil" THEN ErrOpenDocument ELSE ErrNil
        ret0 == IF pdf = "nil" THEN ubPw ELSE w.encrypted
        err1 == IF ret0 THEN ErrNeedsPassword ELSE err0
        pages == IF pdf = "nil" THEN ubPages ELSE w.pages
        objs == IF pdf = "nil" THEN ubObjs ELSE w.objs
    IN  [pdf |-> pdf, err |-> err1, pageTotal |-> pages, objTotal |-> objs,
         nullCalls |-> IF pdf = "nil"
                       THEN {"pdf_needs_password", "pdf_count_pages", "pdf_count_objects"}
                       ELSE {}]

\* What a constructor leaves behind when it returns at once: the empty
\* Document and the error.
EarlyReturn(err) ==
    [err |-> err, f |-> EmptyDocument, native |-> EmptyNative, world |-> NoWorld,
     openNull |-> {}]

\* New(filename), lines 66-103, as the state it leaves.  absOk: filepath.Abs
\* succeeds; exists: os.Stat finds the file; ctxOk: fz_new_context_imp yields
\* a context.
NewResult(absOk, exists, ctxOk, docOk, w, ubPw, ubPages, ubObjs) ==
    IF ~absOk THEN EarlyReturn(ErrAbs)
    ELSE IF ~exists THEN EarlyReturn(ErrNoSuchFile)
    ELSE IF ~ctxOk THEN EarlyReturn(ErrCreateContext)
    ELSE LET r == OpenTail(docOk, w, ubPw, ubPages, ubObjs) IN
         [err |-> r.err,
          f |-> [ctx |-> "ptr", pdf |-> r.pdf,
                 pageTotal |-> r.pageTotal, objTotal |-> r.objTotal],
          \* cfilename is allocated at line 86 and freed by the defer of line 87
          native |-> [EmptyNative EXCEPT !.ctx = "live",
                                         !.pdf = IF docOk THEN "live" ELSE "failed",
                                         !.cfilename = "dropped"],
          world |-> IF docOk THEN w ELSE NoWorld,
          openNull |-> r.nullCalls]

\* NewFromMemory(b), lines 106-141, as the state it leaves.  memOk:
\* fz_open_memory yields a stream.  data is the C.CBytes copy of line 117.
\* The stream is created with one reference; a document opened from it keeps
\* a reference of its own; the defer of line 124 drops the creator's.
NewFromMemoryResult(ctxOk, memOk, docOk, w, ubPw, ubPages, ubObjs) ==
    IF ~ctxOk THEN EarlyReturn(ErrCreateContext)
    ELSE IF ~memOk THEN
         [err |-> ErrOpenMemory,
          f |-> [EmptyDocument EXCEPT !.ctx = "ptr"],
          native |-> [EmptyNative EXCEPT !.ctx = "live", !.data = "live"],
          world |-> NoWorld,
          openNull |-> {}]
    ELSE LET r == OpenTail(docOk, w, ubPw, ubPages, ubObjs)
             refs == (1 + (IF docOk THEN 1 ELSE 0)) - 1
         IN
         [err |-> r.err,
          f |-> [ctx |-> "ptr", pdf |-> r.pdf,
                 pageTotal |-> r.pageTotal, objTotal |-> r.objTotal],
          native |-> [EmptyNative EXCEPT !.ctx = "live",
                                         !.pdf = IF docOk THEN "live" ELSE "failed",
                                         !.data = "live",
                                         !.stream = IF refs = 0 THEN "dropped" ELSE "live",
                                         !.streamRefs = refs],
          world |-> IF docOk THEN w ELSE NoWorld,
          openNull |-> r.nullCalls]

\* The constructor named by returns r: the Document is handed to the caller.
Constructed(by, r) ==
    /\ phase' = "opened"
    /\ opener' = by
    /\ openErr' = r.err
    /\ f' = r.f
    /\ native' = r.native
    /\ world' = r.world
    /\ openNull' = r.openNull
    /\ UNCHANGED <<mtx, scan, input, mtype, pc, arg, loc, ret>>

New(absOk, exists, ctxOk, docOk, w, ubPw, ubPages, ubObjs) ==
    /\ phase = "start"
    /\ Constructed("New", NewResult(absOk, exists, ctxOk, docOk, w, ubPw, ubPages, ubObjs))

NewFromMemory(ctxOk, memOk, docOk, w, ubPw, ubPages, ubObjs) ==
    /\ phase = "start"
    /\ Constructed("NewFromMemory",
                   NewFromMemoryResult(ctxOk, memOk, docOk, w, ubPw, ubPages, ubObjs))

\* NewFromReader(r), lines 144-152.  readOk: ioutil.ReadAll reads r to its
\* end.  When it does not, the result f is still nil and the reader's error
\* is returned; when it does, line 151 returns what NewFromMemory returns
\* for the bytes read.
NewFromReader(readOk, ctxOk, memOk, docOk, w, ubPw, ubPages, ubObjs) ==
    /\ phase = "start"
    /\ IF readOk
       THEN NewFromMemory(ctxOk, memOk, docOk, w, ubPw, ubPages, ubObjs)
       ELSE /\ phase' = "nil"
            /\ opener' = "NewFromReader"
            /\ openErr' = ErrRead
            /\ UNCHANGED <<f, mtx, native, world, openNull, scan, input, mtype,
                           pc, arg, loc, ret>>

\* A method or accessor called on the nil *Document reads a field through
\* the nil pointer: the goroutine panics, and with it the process.
NilReceiver(t) ==
    /\ phase = "nil"
    /\ \A u \in Threads : pc[u] = "idle"
    /\ pc' = [pc EXCEPT ![t] = "panic"]
    /\ UNCHANGED <<phase, opener, openErr, f, mtx, native, world, openNull,
                   scan, input, mtype, arg, loc, ret>>

\* ------------------------------------------------------------ native calls
\* What a native call meets in f.ctx and in f.pdf when the handle is not a
\* live object.
BadCtx ==
    IF f.ctx = "nil" THEN {"null ctx"}
    ELSE IF native.ctx # "live" THEN {"released ctx"} ELSE {}
BadPdf ==
    IF f.pdf = "nil" THEN {"null pdf"}
    ELSE IF native.pdf # "live" THEN {"released pdf"} ELSE {}

\* The locals after a native call given f.ctx and f.pdf, or f.ctx only.
CallCtxPdf(l) == [l EXCEPT !.called = TRUE, !.met = @ \cup BadCtx \cup BadPdf]
CallCtx(l) == [l EXCEPT !.called = TRUE, !.met = @ \cup BadCtx]
\* Whether a native call of this method call had no defined result.
ub(l) == l.met # {}

\* Releasing a native object: a live one is released, a released one is
\* released again, a NULL one is left alone.
Drop(s) ==
    IF s \in {"live", "closed"} THEN "dropped"
    ELSE IF s \in {"dropped", "double"} THEN "double" ELSE s

\* The deferred drops of a call, run in the order given.
RECURSIVE DropAll(_, _)
DropAll(l, names) ==
    IF names = <<>> THEN l
    ELSE DropAll([l EXCEPT ![Head(names)] = Drop(@)], Tail(names))

\* The per-call native objects a returning call leaves live.
StillLive(l) == {r \in PerCall : l[r] \in {"live", "closed"}}

\* A goroutine calls method op with argument a.
BeginCall(t, op, a, first) ==
    /\ phase = "opened"
    /\ pc[t] = "idle"
    /\ pc' = [pc EXCEPT ![t] = first]
    /\ arg' = [arg EXCEPT ![t] = a]
    /\ loc' = [loc EXCEPT ![t] = [NoLoc EXCEPT !.op = op]]
    /\ UNCHANGED <<phase, opener, openErr, f, mtx, native, world, openNull,
                   scan, input, mtype, ret>>

\* The method returns r to its caller.
Finish(t, l, r) ==
    /\ pc' = [pc EXCEPT ![t] = "done"]
    /\ loc' = [loc EXCEPT ![t] = l]
    /\ ret' = [ret EXCEPT ![t] = [op |-> l.op, val |-> r.val, list |-> r.list,
                                  map |-> r.map, err |-> r.err]]

\* The caller takes the result and is free to call again.
Return(t) ==
    /\ pc[t] = "done"
    /\ pc' = [pc EXCEPT ![t] = "idle"]
    /\ arg' = [arg EXCEPT ![t] = 0]
    /\ loc' = [loc EXCEPT ![t] = NoLoc]
    /\ ret' = [ret EXCEPT ![t] = NoRet]
    /\ UNCHANGED <<phase, opener, openErr, f, mtx, native, world, openNull,
                   scan, input, mtype>>

\* f.mtx.Lock(): blocks while another goroutine holds the mutex.
Lock(t, from, to) ==
    /\ pc[t] = from
    /\ mtx = NoThread
    /\ mtx' = t
    /\ pc' = [pc EXCEPT ![t] = to]
    /\ UNCHANGED <<phase, opener, openErr, f, native, world, openNull, scan, input, mtype,
                   arg, loc, ret>>

\* The deferred f.mtx.Unlock().
Unlock(t) == mtx' = NoThread

\* ------------------------------------------------------------------- Text
\* Bytes copied out of a native call that was handed an unsound handle.
Undefined == "undefined"
PageText(p) == IF p = 0 THEN "" ELSE "text"

\* The test of line 169 letting pageNumber = pageTotal through.
PageMissingOffByOne(pageNumber) == pageNumber < 0 \/ f.pageTotal < pageNumber
\* line 169: the page number is outside [0, pageTotal).
PageMissing(pageNumber) == pageNumber < 0 \/ f.pageTotal <= pageNumber

TextCall(t, p) == BeginCall(t, "Text", p, "Text_lock")

\* lines 166-167
TextLock(t) == Lock(t, "Text_lock", "Text_check")

\* The ErrPageMissing return leaving the mutex locked.
TextPageMissingStillLocked(t) ==
    /\ pc[t] = "Text_check"
    /\ PageMissing(arg[t])
    /\ Finish(t, loc[t], StrResult("", ErrPageMissing))
    /\ UNCHANGED <<phase, opener, openErr, f, mtx, native, world, openNull,
                   scan, input, mtype, arg>>

\* lines 169-171: return "", ErrPageMissing; the deferred Unlock runs.
TextPageMissing(t) ==
    /\ pc[t] = "Text_check"
    /\ PageMissing(arg[t])
    /\ Finish(t, loc[t], StrResult("", ErrPageMissing))
    /\ Unlock(t)
    /\ UNCHANGED <<phase, opener, openErr, f, native, world, openNull,
                   scan, input, mtype, arg>>

\* lines 173-180: pdf_load_page, pdf_bound_page.
TextLoadPage(t) ==
    /\ pc[t] = "Text_check"
    /\ ~PageMissing(arg[t])
    /\ loc' = [loc EXCEPT ![t] = [CallCtxPdf(@) EXCEPT !.page = "live"]]
    /\ pc' = [pc EXCEPT ![t] = "Text_sink"]
    /\ UNCHANGED <<phase, opener, openErr, f, mtx, native, world, openNull, scan, input, mtype,
                   arg, ret>>

\* lines 182-190: fz_new_stext_page, fz_new_stext_device, fz_enable_device_hints.
TextNewSink(t) ==
    /\ pc[t] = "Text_sink"
    /\ loc' = [loc EXCEPT ![t] = [CallCtx(@) EXCEPT !.text = "live", !.device = "live"]]
    /\ pc' = [pc EXCEPT ![t] = "Text_run"]
    /\ UNCHANGED <<phase, opener, openErr, f, mtx, native, world, openNull, scan, input, mtype,
                   arg, ret>>

\* lines 192-195: pdf_run_page, fz_close_device.
TextRunPage(t) ==
    /\ pc[t] = "Text_run"
    /\ loc' = [loc EXCEPT ![t] = [CallCtx(@) EXCEPT !.device = "closed"]]
    /\ pc' = [pc EXCEPT ![t] = "Text_flatten"]
    /\ UNCHANGED <<phase, opener, openErr, f, mtx, native, world, openNull, scan, input, mtype,
                   arg, ret>>

\* lines 197-200: fz_new_buffer_from_stext_page, fz_string_from_buffer and the
\* copy into a Go string.  With sound handles the string is the page's text.
TextFlatten(t) ==
    /\ pc[t] = "Text_flatten"
    /\ LET l == CallCtx(loc[t]) IN
       LET str == IF ub(l) THEN Undefined ELSE PageText(arg[t]) IN
            loc' = [loc EXCEPT ![t] = [l EXCEPT !.buf = "live", !.str = str]]
    /\ pc' = [pc EXCEPT ![t] = "Text_defers"]
    /\ UNCHANGED <<phase, opener, openErr, f, mtx, native, world, openNull, scan, input, mtype,
                   arg, ret>>

\* The return of Text without the deferred fz_drop_page.
TextReturnKeepsPage(t) ==
    /\ pc[t] = "Text_defers"
    /\ LET l == DropAll(CallCtx(loc[t]), <<"buf", "device", "text">>) IN
       Finish(t, l, StrResult(l.str, ErrNil))
    /\ Unlock(t)
    /\ UNCHANGED <<phase, opener, openErr, f, native, world, openNull,
                   scan, input, mtype, arg>>

\* line 202 and the defers of lines 198, 190, 183, 174, 167, last first:
\* fz_drop_buffer, fz_drop_device, fz_drop_stext_page, fz_drop_page, Unlock.
TextReturn(t) ==
    /\ pc[t] = "Text_defers"
    /\ LET l == DropAll(CallCtx(loc[t]), <<"buf", "device", "text", "page">>) IN
       Finish(t, l, StrResult(l.str, ErrNil))
    /\ Unlock(t)
    /\ UNCHANGED <<phase, opener, openErr, f, native, world, openNull,
                   scan, input, mtype, arg>>

\* ----------------------------------------------------- ImageBytes, Image
\* The test of line 221 letting objNumber = 0 through.
ObjMissingZeroAllowed(objNumber) == objNumber < 0 \/ f.objTotal <= objNumber
\* line 221: the object number is outside [1, objTotal).
ObjMissing(objNumber) == objNumber <= 0 \/ f.objTotal <= objNumber

\* What Image, lines 208-212, may return on what ImageBytes returned: an
\* error is passed on; bytes go to image.Decode, which gives the image for a
\* PNG and, for bytes of no defined content, the image, image.ErrFormat or
\* an error of the png decoder.
ErrDecode == "image: unknown format"
ErrPng == "png: invalid format"
ImageOf(b, err) ==
    IF err # ErrNil THEN {StrResult("nil", err)}
    ELSE IF b = "png" THEN {StrResult("image", ErrNil)}
    ELSE {StrResult("image", ErrNil), StrResult("nil", ErrDecode), StrResult("nil", ErrPng)}

\* ImageBytes returns (b, err): to its caller, or to Image at line 207 when
\* Image made the call.
ImageBytesFinish(t, l, b, err) ==
    /\ pc' = [pc EXCEPT ![t] = IF l.op = "Image" THEN "Image_decode" ELSE "done"]
    /\ loc' = [loc EXCEPT ![t] = l]
    /\ ret' = [ret EXCEPT ![t] = [op |-> "ImageBytes", val |-> b, list |-> <<>>,
                                  map |-> {}, err |-> err]]

ImageBytesCall(t, n) == BeginCall(t, "ImageBytes", n, "IB_lock")
\* line 207: Image calls ImageBytes.
ImageCall(t, n) == BeginCall(t, "Image", n, "IB_lock")

\* lines 218-219
ImageBytesLock(t) == Lock(t, "IB_lock", "IB_check")

\* lines 221-223: return nil, ErrObjMissing; the deferred Unlock runs.
ImageBytesObjMissing(t) ==
    /\ pc[t] = "IB_check"
    /\ ObjMissing(arg[t])
    /\ ImageBytesFinish(t, loc[t], "nil", ErrObjMissing)
    /\ Unlock(t)
    /\ UNCHANGED <<phase, opener, openErr, f, native, world, openNull,
                   scan, input, mtype, arg>>

\* line 225: obj := pdf_load_object(f.ctx, f.pdf, objNumber), a reference
\* the caller owns.
ImageBytesLoadObject(t) ==
    /\ pc[t] = "IB_check"
    /\ ~ObjMissing(arg[t])
    /\ loc' = [loc EXCEPT ![t] = [CallCtxPdf(@) EXCEPT !.obj = "live"]]
    /\ pc' = [pc EXCEPT ![t] = "IB_isImage"]
    /\ UNCHANGED <<phase, opener, openErr, f, mtx, native, world, openNull, scan, input, mtype,
                   arg, ret>>

\* isImage taking every object for an image.
IsImageAlwaysYes(l, n) == {TRUE}
\* isImage(obj), lines 233-236, as the native library answers it: with sound
\* handles, whether the object's Subtype is Image.
IsImageAnswers(l, n) == IF ub(l) THEN BOOLEAN ELSE {n \in world.images}

\* lines 226, 230: isImage says no; return nil, ErrNotImage; the deferred
\* Unlock runs.
ImageBytesNotImage(t) ==
    /\ pc[t] = "IB_isImage"
    /\ LET l == CallCtx(loc[t]) IN
        /\ FALSE \in IsImageAnswers(l, arg[t])
        /\ ImageBytesFinish(t, l, "nil", ErrNotImage)
    /\ Unlock(t)
    /\ UNCHANGED <<phase, opener, openErr, f, native, world, openNull,
                   scan, input, mtype, arg>>

\* lines 226-227, 239-243: isImage says yes; saveImage begins:
\* pdf_new_indirect, pdf_load_image.
ImageBytesIsImage(t) ==
    /\ pc[t] = "IB_isImage"
    /\ LET l == CallCtx(loc[t]) IN
        /\ TRUE \in IsImageAnswers(l, arg[t])
        /\ loc' = [loc EXCEPT ![t] = [CallCtxPdf(l) EXCEPT !.ref = "live", !.img = "live"]]
    /\ pc' = [pc EXCEPT ![t] = "IB_png"]
    /\ UNCHANGED <<phase, opener, openErr, f, mtx, native, world, openNull, scan, input, mtype,
                   arg, ret>>

\* lines 245-249: fz_new_buffer_from_image_as_png, fz_buffer_storage,
\* fz_string_from_buffer and the copy into a Go string.
SaveImageEncode(t) ==
    /\ pc[t] = "IB_png"
    /\ LET l == CallCtx(loc[t]) IN
       LET str == IF ub(l) THEN Undefined ELSE "png" IN
            loc' = [loc EXCEPT ![t] = [l EXCEPT !.buf = "live", !.str = str]]
    /\ pc' = [pc EXCEPT ![t] = "IB_defers"]
    /\ UNCHANGED <<phase, opener, openErr, f, mtx, native, world, openNull, scan, input, mtype,
                   arg, ret>>

\* line 251 and saveImage's defers of lines 246, 243, 240, last first:
\* fz_drop_buffer, fz_drop_image, pdf_drop_obj(ref); then line 227 returns
\* the bytes with a nil error and the deferred Unlock runs.
ImageBytesReturn(t) ==
    /\ pc[t] = "IB_defers"
    /\ LET l == DropAll(CallCtx(loc[t]), <<"buf", "img", "ref">>) IN
       ImageBytesFinish(t, l, l.str, ErrNil)
    /\ Unlock(t)
    /\ UNCHANGED <<phase, opener, openErr, f, native, world, openNull,
                   scan, input, mtype, arg>>

\* lines 208-212, outside the lock: Image passes ImageBytes' error on, or
\* decodes the bytes and returns what image.Decode gave.
ImageDecode(t) ==
    /\ pc[t] = "Image_decode"
    /\ \E r \in ImageOf(ret[t].val, ret[t].err) : Finish(t, loc[t], r)
    /\ UNCHANGED <<phase, opener, openErr, f, mtx, native, world, openNull,
                   scan, input, mtype, arg>>

\* -------------------------------------------------------------------- ToC
\* The walk going on with the next sibling before it descends to the
\* children.
RECURSIVE walkSiblingsFirst(_, _, _)
walkSiblingsFirst(forest, level, data) ==
    IF forest = <<>> THEN data
    ELSE LET outline == Head(forest)
             res == [Level |-> level, Title |-> outline.title, URI |-> outline.uri,
                     Page |-> outline.page, Top |-> outline.y]
             data1 == walkSiblingsFirst(Tail(forest), level, Append(data, res))
         IN IF outline.down # <<>> THEN walkSiblingsFirst(outline.down, level + 1, data1)
            ELSE data1

\* The walk descending two levels at a time.
RECURSIVE walkTwoLevelsDown(_, _, _)
walkTwoLevelsDown(forest, level, data) ==
    IF forest = <<>> THEN data
    ELSE LET outline == Head(forest)
             res == [Level |-> level, Title |-> outline.title, URI |-> outline.uri,
                     Page |-> outline.page, Top |-> outline.y]
             data1 == Append(data, res)
             data2 == IF outline.down # <<>>
                      THEN walkTwoLevelsDown(outline.down, level + 2, data1)
                      ELSE data1
         IN walkTwoLevelsDown(Tail(forest), level, data2)

\* The walk of lines 264-281 from node list forest at level, appending to
\* data: each node is appended, then its children are walked one level
\* deeper, then the walk goes on with the next sibling.
RECURSIVE walk(_, _, _)
walk(forest, level, data) ==
    IF forest = <<>> THEN data
    ELSE LET outline == Head(forest)
             res == [Level |-> level, Title |-> outline.title, URI |-> outline.uri,
                     Page |-> outline.page, Top |-> outline.y]
             data1 == Append(data, res)
             data2 == IF outline.down # <<>> THEN walk(outline.down, level + 1, data1)
                      ELSE data1
         IN walk(Tail(forest), level, data2)

\* What pdf_load_outline hands back: the first node of the outline, NULL
\* (the empty node list) when there is none.
LoadOutlineAnswers(l) ==
    IF ub(l) THEN {<<>>, SmallOutline.roots} ELSE {world.outline.roots}

ToCCall(t) == BeginCall(t, "ToC", 0, "ToC_load")

\* lines 256-261: pdf_load_outline yields NULL; return nil, ErrLoadOutline.
ToCNoOutline(t) ==
    /\ pc[t] = "ToC_load"
    /\ LET l == CallCtxPdf(loc[t]) IN
        /\ <<>> \in LoadOutlineAnswers(l)
        /\ Finish(t, l, ListResult(<<>>, ErrLoadOutline))
    /\ UNCHANGED <<phase, opener, openErr, f, mtx, native, world, openNull,
                   scan, input, mtype, arg>>

\* lines 256-262: pdf_load_outline yields an outline.
ToCLoadOutline(t) ==
    /\ pc[t] = "ToC_load"
    /\ LET l == CallCtxPdf(loc[t]) IN
       \E o \in LoadOutlineAnswers(l) \ {<<>>} :
            loc' = [loc EXCEPT ![t] = [l EXCEPT !.outline = "live", !.nodes = o]]
    /\ pc' = [pc EXCEPT ![t] = "ToC_walk"]
    /\ UNCHANGED <<phase, opener, openErr, f, mtx, native, world, openNull, scan, input, mtype,
                   arg, ret>>

\* lines 264-284 and the defer of line 262: walk(outline, 1), return data,
\* fz_drop_outline.
ToCWalk(t) ==
    /\ pc[t] = "ToC_walk"
    /\ LET data == walk(loc[t].nodes, 1, <<>>)
           l == DropAll(CallCtx(loc[t]), <<"outline">>)
       IN Finish(t, [l EXCEPT !.list = data], ListResult(data, ErrNil))
    /\ UNCHANGED <<phase, opener, openErr, f, mtx, native, world, openNull,
                   scan, input, mtype, arg>>

\* --------------------------------------------------------------- Metadata
\* lines 302-311: the key of the result and the key handed to the lookup,
\* in the order of the assignments.
MetaKeys ==
    << <<"format", "format">>, <<"encryption", "encryption">>,
       <<"title", "info:Title">>, <<"author", "info:Author">>,
       <<"subject", "info:Subject">>, <<"keywords", "info:Keywords">>,
       <<"creator", "info:Creator">>, <<"producer", "info:Producer">>,
       <<"creationDate", "info:CreationDate">>, <<"modDate", "info:modDate">> >>

\* What pdf_lookup_metadata leaves in the zeroed 256-byte buffer, trailing
\* NULs trimmed (lines 295-299); "" when it writes nothing, as for a key
\* the Info dictionary has not.
lookup(l, key) ==
    IF ub(l) THEN Undefined
    ELSE IF key = "format" THEN "PDF"
    ELSE IF key = "encryption" THEN (IF world.encrypted THEN "Standard" ELSE "None")
    ELSE IF key \in world.info THEN "text"
    ELSE ""

\* The assignment leaving out a key whose value is empty.
AssignIfFilled(map, k, v) ==
    IF v = "" THEN map ELSE {e \in map : e[1] # k} \cup {<<k, v>>}
\* data[k] = v on a Go map held as its set of <<key, value>> pairs.
Assign(map, k, v) == {e \in map : e[1] # k} \cup {<<k, v>>}

MetadataCall(t) == BeginCall(t, "Metadata", 0, "Meta_lookup")

\* One assignment of lines 302-311: data[k] = lookup(key).  arg counts the
\* assignments done.
MetadataLookup(t) ==
    /\ pc[t] = "Meta_lookup"
    /\ arg[t] < Len(MetaKeys)
    /\ LET k == MetaKeys[arg[t] + 1]
           l == CallCtxPdf(loc[t])
       IN loc' = [loc EXCEPT ![t] = [l EXCEPT !.map = Assign(@, k[1], lookup(l, k[2]))]]
    /\ arg' = [arg EXCEPT ![t] = @ + 1]
    /\ UNCHANGED <<phase, opener, openErr, f, mtx, native, world, openNull, scan, input, mtype,
                   pc, ret>>

\* line 313: return data.
MetadataReturn(t) ==
    /\ pc[t] = "Meta_lookup"
    /\ arg[t] = Len(MetaKeys)
    /\ Finish(t, loc[t], MapResult(loc[t].map))
    /\ UNCHANGED <<phase, opener, openErr, f, mtx, native, world, openNull,
                   scan, input, mtype, arg>>

\* ------------------------------------------------------------------ Close
\* pdf_drop_document(f.ctx, f.pdf) on the native heap.  A NULL document is
\* left alone.  A live document gives up its reference to the stream it was
\* opened from.
pdf_drop_document(n) ==
    IF f.pdf = "nil" THEN n
    ELSE [n EXCEPT !.pdf = Drop(@),
                   !.streamRefs = IF n.pdf = "live" /\ @ > 0 THEN @ - 1 ELSE @,
                   !.stream = IF n.pdf = "live" /\ n.streamRefs = 1 THEN "dropped" ELSE @]

\* fz_drop_context(f.ctx) on the native heap.  A NULL context is left alone.
fz_drop_context(n) == IF f.ctx = "nil" THEN n ELSE [n EXCEPT !.ctx = Drop(@)]

\* Close releasing the context first.
CloseOrderContextFirst == <<"fz_drop_context", "pdf_drop_document">>
\* The native calls of Close, lines 318-319, in the order it makes them.
CloseOrder == <<"pdf_drop_document", "fz_drop_context">>

\* Close(), lines 317-321: no lock, no test of any flag.
CloseCall(t) == BeginCall(t, "Close", 0, "Close_drop")

\* One of lines 318-319.  arg counts the calls made.
CloseDrop(t) ==
    /\ pc[t] = "Close_drop"
    /\ arg[t] < Len(CloseOrder)
    /\ LET call == CloseOrder[arg[t] + 1] IN
        /\ native' = IF call = "pdf_drop_document" THEN pdf_drop_document(native)
                     ELSE fz_drop_context(native)
        /\ loc' = [loc EXCEPT ![t] = IF call = "pdf_drop_document" THEN CallCtxPdf(@)
                                     ELSE CallCtx(@)]
    /\ arg' = [arg EXCEPT ![t] = @ + 1]
    /\ UNCHANGED <<phase, opener, openErr, f, mtx, world, openNull,
                   scan, input, mtype, pc, ret>>

\* line 320: return nil.
CloseReturn(t) ==
    /\ pc[t] = "Close_drop"
    /\ arg[t] = Len(CloseOrder)
    /\ Finish(t, loc[t], StrResult("none", ErrNil))
    /\ UNCHANGED <<phase, opener, openErr, f, mtx, native, world, openNull,
                   scan, input, mtype, arg>>

\* ------------------------------------------------------------ the program
Open ==
    /\ phase = "start"
    /\ \/ \E absOk, exists, ctxOk, docOk, ubPw \in BOOLEAN, w \in Worlds,
             ubPages \in GarbageCounts, ubObjs \in GarbageObjCounts :
                New(absOk, exists, ctxOk, docOk, w, ubPw, ubPages, ubObjs)
       \/ \E ctxOk, memOk, docOk, ubPw \in BOOLEAN, w \in Worlds,
             ubPages \in GarbageCounts, ubObjs \in GarbageObjCounts :
                NewFromMemory(ctxOk, memOk, docOk, w, ubPw, ubPages, ubObjs)
       \/ \E readOk, ctxOk, memOk, docOk, ubPw \in BOOLEAN, w \in Worlds,
             ubPages \in GarbageCounts, ubObjs \in GarbageObjCounts :
                NewFromReader(readOk, ctxOk, memOk, docOk, w, ubPw, ubPages, ubObjs)

Text(t) ==
    \/ \E p \in PageArgs : TextCall(t, p)
    \/ TextLock(t)
    \/ TextPageMissing(t)
    \/ TextLoadPage(t)
    \/ TextNewSink(t)
    \/ TextRunPage(t)
    \/ TextFlatten(t)
    \/ TextReturn(t)

ImageBytes(t) ==
    \/ \E n \in ObjArgs : ImageBytesCall(t, n)
    \/ ImageBytesLock(t)
    \/ ImageBytesObjMissing(t)
    \/ ImageBytesLoadObject(t)
    \/ ImageBytesNotImage(t)
    \/ ImageBytesIsImage(t)
    \/ SaveImageEncode(t)
    \/ ImageBytesReturn(t)

\* Image runs ImageBytes' steps in between.
Image(t) == (\E n \in ObjArgs : ImageCall(t, n)) \/ ImageDecode(t)

ToC(t) == ToCCall(t) \/ ToCNoOutline(t) \/ ToCLoadOutline(t) \/ ToCWalk(t)

Metadata(t) == MetadataCall(t) \/ MetadataLookup(t) \/ MetadataReturn(t)

Close(t) == CloseCall(t) \/ CloseDrop(t) \/ CloseReturn(t)

Next ==
    \/ Open
    \/ \E t \in Threads :
        \/ Text(t) \/ ImageBytes(t) \/ Image(t) \/ ToC(t) \/ Metadata(t) \/ Close(t)
        \/ Return(t) \/ NilReceiver(t)

Spec == Init /\ [][Next]_vars

\* The same program used by a single goroutine: every call returns before
\* the next one begins.
Main == CHOOSE t \in Threads : TRUE
NextSeq ==
    \/ Open
    \/ Text(Main) \/ ImageBytes(Main) \/ Image(Main)
    \/ ToC(Main) \/ Metadata(Main) \/ Close(Main)
    \/ Return(Main) \/ NilReceiver(Main)

SeqSpec == Init /\ [][NextSeq]_vars

\* The constructors and goroutines that only close the Document.
NextClose ==
    \/ Open
    \/ \E t \in Threads : Close(t) \/ Return(t) \/ NilReceiver(t)

CloseSpec == Init /\ [][NextClose]_vars

\* Goroutines sharing a Document that New or NewFromMemory returned with a
\* nil error, each calling Text, ImageBytes and Image as often as it likes.
\* A goroutine inside a call keeps running (WF), and a goroutine blocked in
\* f.mtx.Lock() gets the mutex if it is released again and again (SF):
\* sync.Mutex hands the mutex to a waiter that has been starved.
InitExtract ==
    /\ phase = "opened"
    /\ \E w \in Worlds :
        \/ LET r == NewResult(TRUE, TRUE, TRUE, TRUE, w, FALSE, 0, 0) IN
            /\ r.err = ErrNil /\ opener = "New" /\ openErr = r.err /\ f = r.f
            /\ native = r.native /\ world = r.world /\ openNull = r.openNull
        \/ LET r == NewFromMemoryResult(TRUE, TRUE, TRUE, w, FALSE, 0, 0) IN
            /\ r.err = ErrNil /\ opener = "NewFromMemory" /\ openErr = r.err /\ f = r.f
            /\ native = r.native /\ world = r.world /\ openNull = r.openNull
    /\ mtx = NoThread
    /\ scan = {}
    /\ input = <<>>
    /\ mtype = ""
    /\ pc = [t \in Threads |-> "idle"]
    /\ arg = [t \in Threads |-> 0]
    /\ loc = [t \in Threads |-> NoLoc]
    /\ ret = [t \in Threads |-> NoRet]

\* The steps of a goroutine once it is inside a Text, ImageBytes or Image
\* call and is not blocked on the mutex.
Running(t) ==
    \/ TextPageMissing(t) \/ TextLoadPage(t) \/ TextNewSink(t) \/ TextRunPage(t)
    \/ TextFlatten(t) \/ TextReturn(t)
    \/ ImageBytesObjMissing(t) \/ ImageBytesLoadObject(t) \/ ImageBytesNotImage(t)
    \/ ImageBytesIsImage(t) \/ SaveImageEncode(t) \/ ImageBytesReturn(t)
    \/ ImageDecode(t)

NextExtract == \E t \in Threads : Text(t) \/ ImageBytes(t) \/ Image(t) \/ Return(t)

FairSpec ==
    /\ InitExtract
    /\ [][NextExtract]_vars
    /\ \A t \in Threads :
        /\ WF_vars(Running(t))
        /\ SF_vars(TextLock(t))
        /\ SF_vars(ImageBytesLock(t))

\* ------------------------------------------------------------- accessors
\* NumPage(), lines 155-157, and NumObj(), lines 160-162.
NumPage == f.pageTotal
NumObj == f.objTotal

\* A goroutine's method call has returned and its result is with the caller.
Returned(t, op) == pc[t] = "done" /\ ret[t].op = op

\* A goroutine is between the first and the last native call of a Text,
\* ImageBytes, Image, ToC or Metadata call.
InNative(t) ==
    \/ pc[t] \in {"Text_sink", "Text_run", "Text_flatten", "Text_defers"}
    \/ pc[t] \in {"IB_isImage", "IB_png", "IB_defers"}
    \/ pc[t] = "ToC_walk"
    \/ pc[t] = "Meta_lookup" /\ arg[t] > 0 /\ arg[t] < Len(MetaKeys)

\* The constructor returned a Document and a nil error.
OpenedOk == phase = "opened" /\ openErr = ErrNil

\* --------------------------------------------------------------- metadata
\* The documents a Metadata caller may meet: every choice of Info entries
\* among InfoKeys.  A PDF writes its modification date under ModDate.
InfoKeys == {"info:Title", "info:Author", "info:Subject", "info:ModDate"}
MetaWorlds == {[NoWorld EXCEPT !.info = keys] : keys \in SUBSET InfoKeys}

\* One goroutine calling Metadata again and again on a Document that New or
\* NewFromMemory returned with a nil error.
InitMeta ==
    /\ phase = "opened"
    /\ \E w \in MetaWorlds :
        \/ LET r == NewResult(TRUE, TRUE, TRUE, TRUE, w, FALSE, 0, 0) IN
            /\ opener = "New" /\ openErr = r.err /\ f = r.f
            /\ native = r.native /\ world = r.world /\ openNull = r.openNull
        \/ LET r == NewFromMemoryResult(TRUE, TRUE, TRUE, w, FALSE, 0, 0) IN
            /\ opener = "NewFromMemory" /\ openErr = r.err /\ f = r.f
            /\ native = r.native /\ world = r.world /\ openNull = r.openNull
    /\ mtx = NoThread
    /\ scan = {}
    /\ input = <<>>
    /\ mtype = ""
    /\ pc = [t \in Threads |-> "idle"]
    /\ arg = [t \in Threads |-> 0]
    /\ loc = [t \in Threads |-> NoLoc]
    /\ ret = [t \in Threads |-> NoRet]

NextMeta == Metadata(Main) \/ Return(Main)

MetaSpec == InitMeta /\ [][NextMeta]_vars

\* ------------------------------------------------------------ contentType
\* b[i] of a Go byte slice, indexed from 0.
Byte(b, i) == b[i + 1]

\* contentType asking for more than 58 bytes before it looks for EPUB.
contentTypeLongerEpub(b) ==
    IF Len(b) > 3 /\ Byte(b, 0) = 37 /\ Byte(b, 1) = 80 /\ Byte(b, 2) = 68 /\ Byte(b, 3) = 70
    THEN "application/pdf"
    ELSE IF /\ Len(b) > 58
            /\ Byte(b, 0) = 80 /\ Byte(b, 1) = 75 /\ Byte(b, 2) = 3 /\ Byte(b, 3) = 4
            /\ SubSeq(b, 31, 58) =
                    <<109, 105, 109, 101, 116, 121, 112, 101, 97, 112, 112, 108, 105, 99,
                      97, 116, 105, 111, 110, 47, 101, 112, 117, 98, 43, 122, 105, 112>>
    THEN "application/epub+zip"
    ELSE ""

\* contentType(b), lines 324-335, comparison by comparison; the byte values
\* are the source's hexadecimal constants in decimal.
contentType(b) ==
    IF Len(b) > 3 /\ Byte(b, 0) = 37 /\ Byte(b, 1) = 80 /\ Byte(b, 2) = 68 /\ Byte(b, 3) = 70
    THEN "application/pdf"
    ELSE IF /\ Len(b) > 57
            /\ Byte(b, 0) = 80 /\ Byte(b, 1) = 75 /\ Byte(b, 2) = 3 /\ Byte(b, 3) = 4
            /\ Byte(b, 30) = 109 /\ Byte(b, 31) = 105 /\ Byte(b, 32) = 109
            /\ Byte(b, 33) = 101 /\ Byte(b, 34) = 116 /\ Byte(b, 35) = 121
            /\ Byte(b, 36) = 112 /\ Byte(b, 37) = 101 /\ Byte(b, 38) = 97
            /\ Byte(b, 39) = 112 /\ Byte(b, 40) = 112 /\ Byte(b, 41) = 108
            /\ Byte(b, 42) = 105 /\ Byte(b, 43) = 99 /\ Byte(b, 44) = 97
            /\ Byte(b, 45) = 116 /\ Byte(b, 46) = 105 /\ Byte(b, 47) = 111
            /\ Byte(b, 48) = 110 /\ Byte(b, 49) = 47 /\ Byte(b, 50) = 101
            /\ Byte(b, 51) = 112 /\ Byte(b, 52) = 117 /\ Byte(b, 53) = 98
            /\ Byte(b, 54) = 43 /\ Byte(b, 55) = 122 /\ Byte(b, 56) = 105
            /\ Byte(b, 57) = 112
    THEN "application/epub+zip"
    ELSE ""

\* The byte slices contentType is tried on: the head of an EPUB file, of a
\* PDF file, of a file that begins as a PDF and goes on as an EPUB, and of a
\* file of zero bytes, each cut to every length up to MaxLen and with one
\* byte, or none, replaced by one of OtherBytes.
MaxLen == 59
Filler(n) == [i \in 1..n |-> 0]
MimetypeBytes ==
    <<109, 105, 109, 101, 116, 121, 112, 101, 97, 112, 112, 108, 105, 99,
      97, 116, 105, 111, 110, 47, 101, 112, 117, 98, 43, 122, 105, 112>>
EpubHead == <<80, 75, 3, 4>> \o Filler(26) \o MimetypeBytes
PdfHead == <<37, 80, 68, 70, 45, 49, 46, 52>> \o Filler(50)
PdfEpubHead == <<37, 80, 68, 70>> \o Filler(26) \o MimetypeBytes
Files == {EpubHead, PdfHead, PdfEpubHead, Filler(58)}
OtherBytes == {0, 37, 80, 255}
Cut(file, n) ==
    IF n <= Len(file) THEN SubSeq(file, 1, n) ELSE file \o Filler(n - Len(file))
Inputs ==
    LET cuts == {Cut(file, n) : file \in Files, n \in 0..MaxLen} IN
    cuts \cup UNION {{[b EXCEPT ![i] = v] : i \in 1..Len(b), v \in OtherBytes} : b \in cuts}

\* A caller about to hand a byte slice to contentType.
InitContent ==
    /\ phase = "start"
    /\ opener = "none"
    /\ openErr = ErrNil
    /\ f = EmptyDocument
    /\ mtx = NoThread
    /\ native = EmptyNative
    /\ world = NoWorld
    /\ openNull = {}
    /\ scan = {}
    /\ input \in Inputs
    /\ mtype = "not called"
    /\ pc = [t \in Threads |-> "idle"]
    /\ arg = [t \in Threads |-> 0]
    /\ loc = [t \in Threads |-> NoLoc]
    /\ ret = [t \in Threads |-> NoRet]

\* The call returns.
ContentType ==
    /\ mtype = "not called"
    /\ mtype' = contentType(input)
    /\ UNCHANGED <<phase, opener, openErr, f, mtx, native, world, openNull, scan,
                   input, pc, arg, loc, ret>>

ContentSpec == InitContent /\ [][ContentType]_vars

\* ------------------------------------------------------------------- scan
\* The loop of TestImage: for n := 1; n < doc.NumObj(); n++, on a Document
\* opened without error, calling Image or ImageBytes; here the numbers are
\* taken in any order, each once, with calls for other numbers in between.
\* ScanWorlds are the documents scanned.
MaxScanObjs == 4
ScanWorlds ==
    {w \in [pages : {0}, objs : 1..MaxScanObjs, images : SUBSET (1..(MaxScanObjs - 1)),
             encrypted : {FALSE}, outline : {NoOutline}, info : {{}}] :
        w.images \subseteq 1..(w.objs - 1)}

InitScan ==
    /\ phase = "opened"
    /\ \E w \in ScanWorlds :
        \/ LET r == NewResult(TRUE, TRUE, TRUE, TRUE, w, FALSE, 0, 0) IN
            /\ opener = "New" /\ openErr = r.err /\ f = r.f
            /\ native = r.native /\ world = r.world /\ openNull = r.openNull
        \/ LET r == NewFromMemoryResult(TRUE, TRUE, TRUE, w, FALSE, 0, 0) IN
            /\ opener = "NewFromMemory" /\ openErr = r.err /\ f = r.f
            /\ native = r.native /\ world = r.world /\ openNull = r.openNull
    /\ mtx = NoThread
    /\ scan = {}
    /\ input = <<>>
    /\ mtype = ""
    /\ pc = [t \in Threads |-> "idle"]
    /\ arg = [t \in Threads |-> 0]
    /\ loc = [t \in Threads |-> NoLoc]
    /\ ret = [t \in Threads |-> NoRet]

\* The object numbers the scan has been through.
Scanned == {e[1] : e \in scan}

\* The loop takes a number it has not taken yet and calls Image or ImageBytes.
ScanCall(t) ==
    \E n \in (1..(NumObj - 1)) \ Scanned : ImageCall(t, n) \/ ImageBytesCall(t, n)

\* Between two turns of the loop the caller asks for a number outside the
\* scan, the one below it or the one above it; the answer is not part of
\* the scan.
ProbeCall(t) == \E n \in {0, NumObj} : ImageBytesCall(t, n)
ProbeReturn(t) == arg[t] \notin 1..(NumObj - 1) /\ Return(t)

\* The loop looks at the error of the call that returned.
ScanRecord(t) ==
    /\ pc[t] = "done"
    /\ arg[t] \in 1..(NumObj - 1)
    /\ scan' = scan \cup {<<arg[t], ret[t].err>>}
    /\ pc' = [pc EXCEPT ![t] = "idle"]
    /\ arg' = [arg EXCEPT ![t] = 0]
    /\ loc' = [loc EXCEPT ![t] = NoLoc]
    /\ ret' = [ret EXCEPT ![t] = NoRet]
    /\ UNCHANGED <<phase, opener, openErr, f, mtx, native, world, openNull,
                   input, mtype>>

NextScan ==
    \/ ScanCall(Main) \/ ScanRecord(Main)
    \/ ProbeCall(Main) \/ ProbeReturn(Main)
    \/ ImageBytesLock(Main) \/ ImageBytesObjMissing(Main) \/ ImageBytesLoadObject(Main)
    \/ ImageBytesNotImage(Main) \/ ImageBytesIsImage(Main) \/ SaveImageEncode(Main)
    \/ ImageBytesReturn(Main) \/ ImageDecode(Main)

ScanSpec == InitScan /\ [][NextScan]_vars

\* -------------------------------------------------------------- outlines
\* The outline forests of MaxNodes nodes and fewer, every shape, the title
\* of each node drawn from Titles.  A forest of n nodes is a first tree of k
\* nodes (a root over a forest of k - 1) followed by a forest of n - k.
MaxNodes == 4
Titles == {"a", "b"}
Node(title, down) == [title |-> title, uri |-> "#", page |-> 1, y |-> 2, down |-> down]

RECURSIVE ForestsOfSize(_)
ForestsOfSize(n) ==
    IF n = 0 THEN {<<>>}
    ELSE UNION {{<<Node(title, down)>> \o rest :
                    title \in Titles,
                    down \in ForestsOfSize(k - 1),
                    rest \in ForestsOfSize(n - k)} : k \in 1..n}

\* The documents a ToC caller may meet: without an outline, with an empty
\* one, with each of the forests.
OutlineWorlds ==
    {[NoWorld EXCEPT !.outline = NoOutline]} \cup
    {[NoWorld EXCEPT !.outline = [present |-> TRUE, roots |-> forest]] :
        forest \in UNION {ForestsOfSize(n) : n \in 0..MaxNodes}}

\* One goroutine calling ToC again and again on a Document that New or
\* NewFromMemory returned with a nil error.
InitToC ==
    /\ phase = "opened"
    /\ \E w \in OutlineWorlds :
        \/ LET r == NewResult(TRUE, TRUE, TRUE, TRUE, w, FALSE, 0, 0) IN
            /\ opener = "New" /\ openErr = r.err /\ f = r.f
            /\ native = r.native /\ world = r.world /\ openNull = r.openNull
        \/ LET r == NewFromMemoryResult(TRUE, TRUE, TRUE, w, FALSE, 0, 0) IN
            /\ opener = "NewFromMemory" /\ openErr = r.err /\ f = r.f
            /\ native = r.native /\ world = r.world /\ openNull = r.openNull
    /\ mtx = NoThread
    /\ scan = {}
    /\ input = <<>>
    /\ mtype = ""
    /\ pc = [t \in Threads |-> "idle"]
    /\ arg = [t \in Threads |-> 0]
    /\ loc = [t \in Threads |-> NoLoc]
    /\ ret = [t \in Threads |-> NoRet]

NextToC == ToC(Main) \/ Return(Main)

ToCSpec == InitToC /\ [][NextToC]_vars

\* ------------------------------------------------------------------ claims
\* C1: on a successfully opened Document, at most one Text, ImageBytes,
\* Image, ToC or Metadata call is between its first and its last native call
\* at any time.
C1_OneCallInNative == OpenedOk => Cardinality({t \in Threads : InNative(t)}) <= 1

\* C2: once a successfully opened Document is closed, no method called on
\* it makes a native call that is handed the released context or the
\* released document.
C2_NoCallOnReleased ==
    OpenedOk =>
        \A t \in Threads : loc[t].met \cap {"released ctx", "released pdf"} = {}

\* C3: the native document and the native context of a successfully opened
\* Document are each released at most once, whatever the sequence of calls.
C3_ReleasedAtMostOnce ==
    OpenedOk => (native.pdf # "double" /\ native.ctx # "double")

\* C4: a goroutine outside a call does not hold the mutex (every exit path
\* of Text and ImageBytes has released it), a goroutine waiting for the mutex
\* eventually holds it, and every Text, ImageBytes and Image call eventually
\* returns.
Waiting(t) == pc[t] \in {"Text_lock", "IB_lock"}
C4_LockReleasedAndCallsReturn ==
    \A t \in Threads :
        /\ [](pc[t] \in {"idle", "done", "Image_decode"} => mtx # t)
        /\ Waiting(t) ~> mtx = t
        /\ pc[t] # "idle" ~> pc[t] = "done"
\* A goroutine waits in Lock while another is inside Image holding the mutex.
C4_Witness ==
    \E t, u \in Threads :
        /\ t # u /\ Waiting(t)
        /\ mtx = u /\ loc[u].op = "Image" /\ pc[u] = "IB_png"

\* C5: Close releases the document before the context: the document is never
\* live once the context has been released.
C5_DocumentNotLiveAfterContext ==
    native.ctx \in {"dropped", "double"} => native.pdf # "live"
\* A Close of a successfully opened Document has returned.
C5_Witness ==
    \E t \in Threads :
        Returned(t, "Close") /\ native.ctx = "dropped" /\ native.pdf = "dropped"

\* C6: when the native open-document step yields no document, New and
\* NewFromMemory return ErrOpenDocument.
C6_OpenDocumentFailed == native.pdf = "failed" => openErr = ErrOpenDocument

\* C7: after New returned ErrNoSuchFile there is no native context and no
\* native document, and no method called on the handle makes a native call.
C7_NoSuchFileUnusable ==
    (opener = "New" /\ openErr = ErrNoSuchFile) =>
        /\ f.ctx = "nil" /\ f.pdf = "nil"
        /\ native = EmptyNative
        /\ \A t \in Threads : ~loc[t].called

\* C8: whatever the constructor returned, once a Close has returned no native
\* object the constructor created is still live.
NativeLive == {r \in {"ctx", "pdf", "cfilename", "data", "stream"} : native[r] = "live"}
C8_NothingLiveAfterClose ==
    (\E t \in Threads : Returned(t, "Close")) => NativeLive = {}

\* C9: Text(i) returns ErrPageMissing exactly when i < 0 or i >= NumPage(),
\* and a string with a nil error otherwise; on the ErrPageMissing path it
\* has made no native call and holds no native object.
C9_TextPageMissingIff ==
    \A t \in Threads : Returned(t, "Text") =>
        /\ ret[t].err = ErrPageMissing <=> (arg[t] < 0 \/ arg[t] >= NumPage)
        /\ ret[t].err \in {ErrPageMissing, ErrNil}
        /\ ret[t].err = ErrNil =>
                /\ ret[t].val \in {PageText(arg[t]), Undefined}
                /\ loc[t].met = {} => ret[t].val = PageText(arg[t])
        /\ ret[t].err = ErrPageMissing =>
                /\ ret[t].val = ""
                /\ ~loc[t].called
                /\ \A r \in PerCall : loc[t][r] = "none"
\* Text(NumPage()) on a Document with pages has returned ErrPageMissing.
C9_Witness ==
    \E t \in Threads :
        /\ Returned(t, "Text") /\ OpenedOk
        /\ NumPage > 0 /\ arg[t] = NumPage /\ ret[t].err = ErrPageMissing

\* C10: ImageBytes(n) returns ErrObjMissing exactly when n <= 0 or
\* n >= NumObj(); for any other n it returns either bytes with a nil error
\* (the object's Subtype is Image) or no bytes with ErrNotImage (it is not).
C10_ImageBytesOutcomes ==
    \A t \in Threads : Returned(t, "ImageBytes") =>
        /\ ret[t].err = ErrObjMissing <=> (arg[t] <= 0 \/ arg[t] >= NumObj)
        /\ ret[t].err \in {ErrObjMissing, ErrNotImage, ErrNil}
        /\ ret[t].err = ErrNil <=> ret[t].val # "nil"
        /\ (ret[t].err # ErrObjMissing /\ loc[t].met = {}) =>
                (ret[t].err = ErrNil <=> arg[t] \in world.images)
\* ImageBytes(n) of an image object has returned bytes.
C10_Witness ==
    \E t \in Threads :
        /\ Returned(t, "ImageBytes") /\ OpenedOk
        /\ arg[t] \in world.images /\ ret[t].err = ErrNil /\ ret[t].val = "png"

\* C11: in a scan of the object numbers 1 .. NumObj()-1, no number gets
\* ErrObjMissing, a number gets something other than ErrNotImage exactly
\* when it is an image object, and a complete scan has as many results that
\* are not ErrNotImage as the document has image objects.
C11_ScanCountsImages ==
    /\ \A e \in scan :
        /\ e[2] # ErrObjMissing
        /\ e[2] # ErrNotImage <=> e[1] \in world.images
    /\ Scanned = 1..(NumObj - 1) =>
            Cardinality({e \in scan : e[2] # ErrNotImage}) = Cardinality(world.images)
\* A complete scan of a document with image objects and other objects.
C11_Witness ==
    /\ Scanned = 1..(NumObj - 1)
    /\ Cardinality(world.images) = 2
    /\ NumObj = MaxScanObjs

\* The depth-first pre-order flattening of a forest whose roots are at
\* level: the first root, then the flattening of its children one level
\* down, then the flattening of the roots after it.
RECURSIVE PreOrder(_, _)
PreOrder(forest, level) ==
    IF forest = <<>> THEN <<>>
    ELSE LET n == Head(forest) IN
         <<[Level |-> level, Title |-> n.title, URI |-> n.uri, Page |-> n.page,
            Top |-> n.y]>>
         \o PreOrder(n.down, level + 1)
         \o PreOrder(Tail(forest), level)

\* C12: the sequence a ToC call returns, the first call and every later one,
\* is the depth-first pre-order flattening of the document's outline forest
\* with the roots at level 1.
C12_ToCIsPreOrder ==
    \A t \in Threads :
        (Returned(t, "ToC") /\ loc[t].met = {}) =>
            ret[t].list = PreOrder(world.outline.roots, 1)
\* ToC has returned the entries of a forest in which a root with a child is
\* followed by another root.
C12_Witness ==
    \E t \in Threads :
        /\ Returned(t, "ToC") /\ ret[t].err = ErrNil
        /\ Len(world.outline.roots) >= 2
        /\ world.outline.roots[1].down # <<>>
        /\ Len(ret[t].list) = MaxNodes

\* C13: in every sequence ToC returns, the first entry, if there is one, has
\* level 1, every entry has level 1 or more, and no entry is more than one
\* level below the entry before it.
C13_ToCLevels ==
    \A t \in Threads : Returned(t, "ToC") =>
        LET data == ret[t].list IN
        /\ data # <<>> => data[1].Level = 1
        /\ \A i \in 1..Len(data) : data[i].Level >= 1
        /\ \A i \in 2..Len(data) : data[i].Level <= data[i - 1].Level + 1
\* ToC has returned entries that go down to level 3 and come back to level 1.
C13_Witness ==
    \E t \in Threads :
        /\ Returned(t, "ToC")
        /\ Len(ret[t].list) = MaxNodes
        /\ ret[t].list[3].Level = 3
        /\ ret[t].list[MaxNodes].Level = 1

\* C14: ToC returns ErrLoadOutline exactly when the document has no outline;
\* for an outline that is present and empty it returns the empty sequence
\* and a nil error.
C14_LoadOutlineFailedIff ==
    \A t \in Threads :
        (Returned(t, "ToC") /\ loc[t].met = {}) =>
            /\ ret[t].err = ErrLoadOutline <=> ~world.outline.present
            /\ world.outline = EmptyOutline =>
                    (ret[t].err = ErrNil /\ ret[t].list = <<>>)

\* C15: contentType(b) is "application/pdf" when b has 4 bytes or more and
\* begins with %PDF; otherwise "application/epub+zip" when b has 58 bytes or
\* more, begins with 50 4B 03 04 and has mimetypeapplication/epub+zip at
\* bytes 30 to 57; otherwise the empty string.
C15_ContentType ==
    mtype # "not called" =>
        LET pdf == Len(input) >= 4 /\ SubSeq(input, 1, 4) = <<37, 80, 68, 70>>
            epub == /\ Len(input) >= 58
                    /\ SubSeq(input, 1, 4) = <<80, 75, 3, 4>>
                    /\ SubSeq(input, 31, 58) = MimetypeBytes
        IN  /\ mtype = (IF pdf THEN "application/pdf"
                        ELSE IF epub THEN "application/epub+zip" ELSE "")
            /\ Len(input) < 4 => mtype = ""
            /\ Len(input) < 58 => mtype # "application/epub+zip"
\* contentType has answered EPUB for a slice of exactly 58 bytes.
C15_Witness == mtype = "application/epub+zip" /\ Len(input) = 58

\* C16: Metadata returns, without an error, a map whose keys are exactly the
\* ten fixed ones, each with one string value; a field the document does not
\* have is there with the empty string.
TenKeys ==
    {"format", "encryption", "title", "author", "subject", "keywords", "creator",
     "producer", "creationDate", "modDate"}
C16_MetadataTenKeys ==
    \A t \in Threads : Returned(t, "Metadata") =>
        /\ ret[t].err = ErrNil
        /\ {e[1] : e \in ret[t].map} = TenKeys
        /\ Cardinality(ret[t].map) = Cardinality(TenKeys)
        /\ loc[t].met = {} =>
            /\ "info:Title" \notin world.info => <<"title", "">> \in ret[t].map
            /\ "info:Author" \notin world.info => <<"author", "">> \in ret[t].map
            /\ "info:Subject" \notin world.info => <<"subject", "">> \in ret[t].map
            /\ \A k \in {"keywords", "creator", "producer", "creationDate"} :
                    <<k, "">> \in ret[t].map
\* Metadata has returned for a document that has a title and no author.
C16_Witness ==
    \E t \in Threads :
        /\ Returned(t, "Metadata")
        /\ <<"title", "text">> \in ret[t].map
        /\ <<"author", "">> \in ret[t].map

\* C17: while Text runs on sound handles the page, the structured-text page
\* and the device are live when the page is run, the device is closed and
\* the structured-text page live when the text is flattened, the buffer is
\* live when the string is copied out of it; when Text returns each of the
\* four has been released once, or was never created, and the string
\* returned is the copy.
TextObjects == {"page", "text", "device", "buf"}
C17_TextReleasesOnce ==
    \A t \in Threads : (loc[t].op = "Text" /\ loc[t].met = {}) =>
        LET l == loc[t] IN
        /\ pc[t] = "Text_run" => (l.page = "live" /\ l.text = "live" /\ l.device = "live")
        /\ pc[t] = "Text_flatten" => (l.device = "closed" /\ l.text = "live")
        /\ pc[t] = "Text_defers" =>
                /\ l.buf = "live" /\ l.page = "live" /\ l.text = "live"
                /\ l.device = "closed"
        /\ pc[t] = "done" =>
                /\ \A r \in TextObjects : l[r] \in {"none", "dropped"}
                /\ ret[t].err = ErrNil =>
                        /\ \A r \in TextObjects : l[r] = "dropped"
                        /\ ret[t].val = l.str
                /\ ret[t].err # ErrNil => \A r \in TextObjects : l[r] = "none"
\* Text has returned the text of a page of an open Document.
C17_Witness ==
    \E t \in Threads :
        /\ Returned(t, "Text") /\ OpenedOk /\ loc[t].met = {}
        /\ ret[t].err = ErrNil /\ ret[t].val = PageText(arg[t])
        /\ \A r \in TextObjects : loc[t][r] = "dropped"

\* C18: when ImageBytes or Image returns on sound handles, no native object
\* the call obtained is still live.
C18_ImageBytesReleasesAll ==
    \A t \in Threads :
        (pc[t] = "done" /\ loc[t].op \in {"ImageBytes", "Image"} /\ loc[t].met = {}) =>
            StillLive(loc[t]) = {}

\* C19: on a successfully opened Document, a goroutine that holds the mutex
\* and has made a native call finds the document and the context live: Close
\* has not released them before or between its native calls.
C19_NoReleaseDuringExtraction ==
    OpenedOk =>
        \A t \in Threads :
            (mtx = t /\ loc[t].called) => (native.pdf = "live" /\ native.ctx = "live")

\* C20: the constructors make no native call with a NULL document, and
\* pageTotal and objTotal are only set from a document that was opened.
C20_NoNullDocumentCall ==
    /\ openNull = {}
    /\ native.pdf = "failed" => (f.pageTotal = 0 /\ f.objTotal = 0)
====
